---- MODULE Spec2Model ----
(***************************************************************************)
(* Timed-lyrics engine of the Audacious "Lyrics" plugin, in its two copies *)
(*   GTK: src/unnamed/part_000       Qt: src/src/lyrics-qt/lyrics-qt.cc    *)
(* Strings are sequences of one-character strings.  int is 32 bits wide,   *)
(* float is IEEE-754 binary32 with round-to-nearest-even.                  *)
(***************************************************************************)
EXTENDS Integers, Sequences, FiniteSets, TLC

\* F(e) with e evaluated once: a local whose value is used many times
Bind(e, F(_)) == CHOOSE r \in {F(x) : x \in {e}} : TRUE

(***************************************************************************)
(* int: 32-bit two's complement                                            *)
(***************************************************************************)
INT_MAX == 2147483647
INT_MIN == -INT_MAX - 1

\* a - b leaves the range of int (signed overflow, undefined behaviour)
SubOverflows(a, b) ==
    \/ b > 0 /\ a < INT_MIN + b
    \/ b < 0 /\ a > INT_MAX + b

\* a - b as a wrapping build computes it (modulo 2^32)
SubWrap(a, b) ==
    IF b > 0 /\ a < INT_MIN + b THEN ((a - INT_MIN) + (INT_MAX - b)) + 1
    ELSE IF b < 0 /\ a > INT_MAX + b THEN ((a - INT_MAX) + (INT_MIN - b)) - 1
    ELSE a - b

\* minutes * 60 leaves the range of int (minutes >= 0)
Mul60Overflows(minutes) == minutes > INT_MAX \div 60

\* minutes * 60 modulo 2^32 as a signed int, computed in 25-bit limbs:
\* minutes = hi * 2^25 + lo and 60 * lo = c * 2^25 + d
Mul60Wrap(minutes) ==
    LET hi == minutes \div 2^25
        lo == minutes % 2^25
        c  == (60 * lo) \div 2^25
        d  == (60 * lo) % 2^25
        u  == (60 * hi + c) % 128
    IN  IF u >= 64 THEN (u - 128) * 2^25 + d ELSE u * 2^25 + d

(***************************************************************************)
(* float: binary32.  A value is (-1)^neg * m * 2^e with m = 0 or           *)
(* 2^23 <= m < 2^24.                                                       *)
(***************************************************************************)
RECURSIVE BitLen(_)
BitLen(n) == IF n = 0 THEN 0 ELSE 1 + BitLen(n \div 2)

FloatZero == [neg |-> FALSE, m |-> 0, e |-> 0]

\* n * 2^e with a mantissa n of len bits, rounded to 24 bits (ties to even);
\* sticky: the exact value lies strictly between n and n + 1 (len > 24 then)
RoundBits(neg, n, e, sticky, len) ==
    IF n = 0 THEN FloatZero
    ELSE IF len <= 24
    THEN [neg |-> neg, m |-> n * 2^(24 - len), e |-> e - (24 - len)]
    ELSE LET k    == len - 24
             q    == n \div 2^k
             rem  == n % 2^k
             half == 2^(k - 1)
             up   == rem > half \/ (rem = half /\ (sticky \/ q % 2 = 1))
         IN  IF up /\ q + 1 = 2^24
             THEN [neg |-> neg, m |-> 2^23, e |-> e + k + 1]
             ELSE [neg |-> neg, m |-> IF up THEN q + 1 ELSE q, e |-> e + k]

\* the float nearest to (-1)^neg * n * 2^e
RoundToFloat(neg, n, e, sticky) ==
    Bind(n, LAMBDA v : RoundBits(neg, v, e, sticky, BitLen(v)))

\* binary expansion of ip + fp/scale, 0 <= fp < scale, until 24 bits are there
RECURSIVE Expand(_, _, _, _)
Expand(n, r, scale, e) ==
    IF n >= 2^24 \/ (n = 0 /\ r = 0) THEN [n |-> n, r |-> r, e |-> e]
    ELSE Bind(<<2 * n + (IF 2 * r >= scale THEN 1 ELSE 0), (2 * r) % scale>>,
              LAMBDA x : Expand(x[1], x[2], scale, e - 1))

\* correctly rounded conversion of the decimal ip + fp/scale (strtof)
DecToFloat(ip, fp, scale) ==
    Bind(Expand(ip, fp, scale, 0),
         LAMBDA x : RoundToFloat(FALSE, x.n, x.e, x.r # 0))

\* conversion int -> float of (minutes * 60)
IntToFloat(a) ==
    IF a = INT_MIN THEN [neg |-> TRUE, m |-> 2^23, e |-> 8]
    ELSE RoundToFloat(a < 0, IF a < 0 THEN -a ELSE a, 0, FALSE)

\* big + small rounded to float, for |big| >= |small| > 0: both mantissas
\* get three more bits and small is shifted to the exponent of big
AddAligned(big, small) ==
    LET d    == big.e - small.e
        X    == big.m * 8
        Y    == IF d <= 3 THEN small.m * 2^(3 - d)
                ELSE IF d - 3 >= 24 THEN 0
                ELSE small.m \div 2^(d - 3)
        lost == IF d <= 3 THEN FALSE
                ELSE IF d - 3 >= 24 THEN TRUE
                ELSE small.m % 2^(d - 3) # 0
    IN  IF big.neg = small.neg
        THEN RoundToFloat(big.neg, X + Y, big.e - 3, lost)
        ELSE RoundToFloat(big.neg, X - Y - (IF lost THEN 1 ELSE 0),
                          big.e - 3, lost)

\* x + y rounded to float
FloatAdd(x, y) ==
    IF x.m = 0 THEN y
    ELSE IF y.m = 0 THEN x
    ELSE IF x.e > y.e \/ (x.e = y.e /\ x.m >= y.m) THEN AddAligned(x, y)
    ELSE AddAligned(y, x)

\* x * 1000 rounded to float (1000 = 125 * 2^3)
FloatMul1000(x) == RoundToFloat(x.neg, x.m * 125, x.e + 3, FALSE)

\* The builds: what signed overflow does (wraps, or traps as with -ftrapv)
\* and what an out-of-range float -> int conversion yields (x86 cvttss2si
\* gives INT_MIN, AArch64 fcvtzs saturates).
Builds == [overflow : {"wrap", "trap"}, fcvt : {"indefinite", "saturate"}]

\* static_cast <int> (x): truncation toward zero; out of range is undefined
FloatToInt(x, b) ==
    LET outOfRange == IF b.fcvt = "indefinite" THEN INT_MIN
                      ELSE IF x.neg THEN INT_MIN ELSE INT_MAX
    IN  IF x.m = 0 THEN 0
        ELSE IF x.e >= 8
        THEN (IF x.neg /\ x.m = 2^23 /\ x.e = 8 THEN INT_MIN ELSE outOfRange)
        ELSE IF x.e >= 0
        THEN (IF x.neg THEN -(x.m * 2^x.e) ELSE x.m * 2^x.e)
        ELSE IF -x.e >= 24 THEN 0
        ELSE (IF x.neg THEN -(x.m \div 2^(-x.e)) ELSE x.m \div 2^(-x.e))

\* (minutes * 60 + seconds) * 1000 as an int, minutes * 60 wrapping
TimestampMs(minutes, seconds, b) ==
    Bind(IntToFloat(Mul60Wrap(minutes)), LAMBDA m60 :
    Bind(FloatAdd(m60, seconds), LAMBDA sum :
    Bind(FloatMul1000(sum), LAMBDA ms : FloatToInt(ms, b))))

(***************************************************************************)
(* Text: character classes, the two regular expressions, stoi and stof     *)
(***************************************************************************)
Digit == {"0", "1", "2", "3", "4", "5", "6", "7", "8", "9"}

DigitVal(c) ==
    CASE c = "0" -> 0 [] c = "1" -> 1 [] c = "2" -> 2 [] c = "3" -> 3
      [] c = "4" -> 4 [] c = "5" -> 5 [] c = "6" -> 6 [] c = "7" -> 7
      [] c = "8" -> 8 [] c = "9" -> 9

\* \s of the regular expressions
Space == {" ", "\t", "\r", "\n", "\f"}

\* the characters erased around a record, and in front of its text
TrimSet     == {" ", "\t", "\r"}
TextTrimSet == {" ", "\t"}

\* std::regex_constants::icase on the letters of "offset"
ToLower(c) ==
    CASE c = "O" -> "o" [] c = "F" -> "f" [] c = "S" -> "s"
      [] c = "E" -> "e" [] c = "T" -> "t" [] OTHER -> c

At(s, p, c) == p <= Len(s) /\ s[p] = c

Range(s) == {s[i] : i \in DOMAIN s}

\* first position >= p whose character is not in class (Len(s) + 1 if none)
RECURSIVE Skip(_, _, _)
Skip(s, p, class) ==
    IF p <= Len(s) /\ s[p] \in class THEN Skip(s, p + 1, class) ELSE p

\* last position <= p whose character is not in class (0 if none)
RECURSIVE SkipBack(_, _, _)
SkipBack(s, p, class) ==
    IF p >= 1 /\ s[p] \in class THEN SkipBack(s, p - 1, class) ELSE p

NoMatch == [found |-> FALSE]

\* time_re anchored at position p:
\*   \[ \s* (\d+) \s* : \s* (\d+(?:\.\d+)?) \s* \]
\* a, b: the minutes; d, g: the seconds, with a fraction from f on if a dot
\* and a digit follow; h: the closing bracket
time_re(s, p) ==
    IF ~At(s, p, "[") THEN NoMatch
    ELSE
    Bind(Skip(s, p + 1, Space), LAMBDA a :
    Bind(Skip(s, a, Digit), LAMBDA b :
    Bind(Skip(s, b, Space), LAMBDA c :
    Bind(Skip(s, c + 1, Space), LAMBDA d :
    Bind(Skip(s, d, Digit), LAMBDA f :
    Bind(IF At(s, f, ".") /\ Skip(s, f + 1, Digit) > f + 1
         THEN Skip(s, f + 1, Digit) ELSE f, LAMBDA g :
    Bind(Skip(s, g, Space), LAMBDA h :
        IF b > a /\ At(s, c, ":") /\ f > d /\ At(s, h, "]")
        THEN [found |-> TRUE, position |-> p, end |-> h + 1,
              str1 |-> SubSeq(s, a, b - 1), str2 |-> SubSeq(s, d, g - 1)]
        ELSE NoMatch)))))))

\* offset_re anchored at position p, case-insensitive:
\*   \[ \s* offset \s* : \s* ([+-]?\d+) \s* \]
offset_re(s, p) ==
    IF ~At(s, p, "[") THEN NoMatch
    ELSE
    Bind(Skip(s, p + 1, Space), LAMBDA a :
    IF ~(a + 5 <= Len(s)
         /\ [i \in 1..6 |-> ToLower(s[a + i - 1])]
              = <<"o", "f", "f", "s", "e", "t">>)
    THEN NoMatch
    ELSE
    Bind(Skip(s, a + 6, Space), LAMBDA c :
    Bind(Skip(s, c + 1, Space), LAMBDA d :
    Bind(IF At(s, d, "+") \/ At(s, d, "-") THEN d + 1 ELSE d, LAMBDA n :
    Bind(Skip(s, n, Digit), LAMBDA f :
    Bind(Skip(s, f, Space), LAMBDA h :
        IF At(s, c, ":") /\ f > n /\ At(s, h, "]")
        THEN [found |-> TRUE, position |-> p, end |-> h + 1,
              str1 |-> SubSeq(s, d, f - 1)]
        ELSE NoMatch))))))

\* std::regex_search (line, offset_match, offset_re): the leftmost match
RECURSIVE regex_search_offset(_, _)
regex_search_offset(s, p) ==
    IF p > Len(s) THEN NoMatch
    ELSE Bind(offset_re(s, p), LAMBDA m :
            IF m.found THEN m ELSE regex_search_offset(s, p + 1))

\* std::sregex_iterator over time_re: the successive matches from p on
RECURSIVE sregex_iterator(_, _)
sregex_iterator(s, p) ==
    IF p > Len(s) THEN <<>>
    ELSE Bind(time_re(s, p), LAMBDA m :
            IF m.found THEN <<m>> \o sregex_iterator(s, m.end)
            ELSE sregex_iterator(s, p + 1))

Thrown == [ok |-> FALSE]

\* strtol on the digits from position i on: std::out_of_range when the value
\* is no int
RECURSIVE StoiAcc(_, _, _, _)
StoiAcc(s, i, neg, v) ==
    IF i > Len(s) THEN [ok |-> TRUE, val |-> v]
    ELSE LET dv == DigitVal(s[i])
         IN  IF neg
             THEN (IF v < (INT_MIN + dv) \div 10
                          + (IF (INT_MIN + dv) % 10 = 0 THEN 0 ELSE 1)
                   THEN Thrown
                   ELSE StoiAcc(s, i + 1, neg, v * 10 - dv))
             ELSE (IF v > (INT_MAX - dv) \div 10
                   THEN Thrown
                   ELSE StoiAcc(s, i + 1, neg, v * 10 + dv))

\* std::stoi on [+-]?\d+
stoi(s) ==
    IF s[1] = "-" THEN StoiAcc(s, 2, TRUE, 0)
    ELSE IF s[1] = "+" THEN StoiAcc(s, 2, FALSE, 0)
    ELSE StoiAcc(s, 1, FALSE, 0)

\* std::stof on \d+(?:\.\d+)? : the correctly rounded float.  It throws
\* std::out_of_range only beyond FLT_MAX (39 digits or more) or below
\* FLT_MIN, which the literals of the modelled bodies never are; their
\* integer and fraction parts are below 10^9 each.
stof(s) ==
    Bind(Skip(s, 1, Digit), LAMBDA dot :
    Bind(SubSeq(s, dot + 1, Len(s)), LAMBDA fs :
    Bind(StoiAcc(SubSeq(s, 1, dot - 1), 1, FALSE, 0).val, LAMBDA ip :
    Bind(StoiAcc(fs, 1, FALSE, 0).val, LAMBDA fp :
        DecToFloat(ip, fp, 10^Len(fs))))))

(***************************************************************************)
(* The records the modelled bodies are made of                             *)
(***************************************************************************)
\* "[00:10.0][00:20.0]Hello": two tags, one text
RecMulti ==
    <<"[", "0", "0", ":", "1", "0", ".", "0", "]", "[", "0", "0", ":", "2",
      "0", ".", "0", "]", "H", "e", "l", "l", "o">>

\* "[00:10.0] a [ 0 : 5 ]  b \r": text between tags, blanks inside a tag, later tag earlier in time
RecBetween ==
    <<"[", "0", "0", ":", "1", "0", ".", "0", "]", " ", "a", " ", "[", " ",
      "0", " ", ":", " ", "5", " ", "]", " ", " ", "b", " ", "\r">>

\* "[17:14.84]World": a time the float arithmetic does not hit
RecFrac ==
    <<"[", "1", "7", ":", "1", "4", ".", "8", "4", "]", "W", "o", "r", "l",
      "d">>

\* "[offset:5001]": an offset that takes 5000 to -1
RecOffset ==
    <<"[", "o", "f", "f", "s", "e", "t", ":", "5", "0", "0", "1", "]">>

\* " [ OFFSET : -7 ]": negative offset, blanks, upper case
RecOffsetNeg ==
    <<" ", "[", " ", "O", "F", "F", "S", "E", "T", " ", ":", " ", "-", "7",
      " ", "]">>

\* "[offset:+500] [00:01.0]zz": offset tag, time tag and text in one record
RecMixed ==
    <<"[", "o", "f", "f", "s", "e", "t", ":", "+", "5", "0", "0", "]", " ",
      "[", "0", "0", ":", "0", "1", ".", "0", "]", "z", "z">>

\* "Hello": no tag
RecPlain ==
    <<"H", "e", "l", "l", "o">>

\* "": empty record
RecEmpty ==
    <<>>

\* "[99999999999:00]x": minutes that are no int
RecBigMinutes ==
    <<"[", "9", "9", "9", "9", "9", "9", "9", "9", "9", "9", "9", ":", "0",
      "0", "]", "x">>

\* "[offset:99999999999]": an offset that is no int
RecBigOffset ==
    <<"[", "o", "f", "f", "s", "e", "t", ":", "9", "9", "9", "9", "9", "9",
      "9", "9", "9", "9", "9", "]">>

\* "[offset:2147483647]": the largest int as offset
RecMaxOffset ==
    <<"[", "o", "f", "f", "s", "e", "t", ":", "2", "1", "4", "7", "4", "8",
      "3", "6", "4", "7", "]">>

\* "[36000:00]y": 600 hours: more milliseconds than an int holds
RecLong ==
    <<"[", "3", "6", "0", "0", "0", ":", "0", "0", "]", "y">>

\* "[35791395:00]z": minutes * 60 overflows
RecHuge ==
    <<"[", "3", "5", "7", "9", "1", "3", "9", "5", ":", "0", "0", "]", "z">>

\* "[00:00.0]x": a lyric at time zero
RecZero ==
    <<"[", "0", "0", ":", "0", "0", ".", "0", "]", "x">>

\* "[offset:-2147483648]": the least offset stoi accepts
RecMinOffset ==
    <<"[", "o", "f", "f", "s", "e", "t", ":", "-", "2", "1", "4", "7", "4",
      "8", "3", "6", "4", "8", "]">>

\* the records combined freely, and the records of the rare paths
CoreRecords == {RecMulti, RecBetween, RecOffset, RecOffsetNeg, RecPlain}

RareRecords ==
    {RecFrac, RecMixed, RecBigMinutes, RecBigOffset, RecMaxOffset, RecLong,
     RecHuge, RecZero, RecMinOffset, RecEmpty}

AllRecords == CoreRecords \cup RareRecords

(***************************************************************************)
(* The parser: the body of update_lyrics_window after the display is set   *)
(***************************************************************************)
RECURSIVE FindNewline(_, _)
FindNewline(s, p) ==
    IF p <= Len(s) /\ s[p] # "\n" THEN FindNewline(s, p + 1) ELSE p

\* std::getline (iss, line) from position p until the stream is exhausted
RECURSIVE GetLinesFrom(_, _)
GetLinesFrom(s, p) ==
    IF p > Len(s) THEN <<>>
    ELSE Bind(FindNewline(s, p), LAMBDA n :
            <<SubSeq(s, p, n - 1)>> \o GetLinesFrom(s, n + 1))

GetLines(s) == GetLinesFrom(s, 1)

\* line.erase (0, line.find_first_not_of (" \t\r"));
\* line.erase (line.find_last_not_of (" \t\r") + 1);
Sanitize(line) ==
    SubSeq(line, Skip(line, 1, TrimSet), SkipBack(line, Len(line), TrimSet))

\* one time tag: stoi, stof and (minutes * 60 + seconds) * 1000 as an int
TagTime(match, b) ==
    Bind(stoi(match.str1), LAMBDA minutes :
        IF ~minutes.ok THEN [status |-> "throw"]
        ELSE IF Mul60Overflows(minutes.val) /\ b.overflow = "trap"
        THEN [status |-> "trap"]
        ELSE Bind(stof(match.str2), LAMBDA seconds :
                [status |-> "ok",
                 timestamp_ms |-> TimestampMs(minutes.val, seconds, b)]))

\* the for loop over the time tags of a record from the i-th on: the
\* timestamps pushed, or the first exception or trap
RECURSIVE TagTimes(_, _, _)
TagTimes(matches, i, b) ==
    IF i > Len(matches) THEN [status |-> "ok", timestamps |-> <<>>]
    ELSE Bind(TagTime(matches[i], b), LAMBDA t :
            IF t.status # "ok" THEN [status |-> t.status]
            ELSE Bind(TagTimes(matches, i + 1, b), LAMBDA rest :
                    IF rest.status # "ok" THEN rest
                    ELSE [status |-> "ok",
                          timestamps |->
                              <<t.timestamp_ms>> \o rest.timestamps]))

\* line.substr (last_pos) with the leading " \t" erased
TextAfter(line, last_pos) ==
    Bind(SubSeq(line, last_pos, Len(line)), LAMBDA rest :
        SubSeq(rest, Skip(rest, 1, TextTrimSet), Len(rest)))

\* step 3 of an iteration: the lines pushed for the timestamps of a record
TimedLines(line, matches, times) ==
    IF times.status # "ok" THEN [kind |-> "timed", status |-> times.status]
    ELSE IF times.timestamps = <<>>
    THEN [kind |-> "timed", status |-> "ok", lines |-> <<>>]
    ELSE Bind(TextAfter(line, matches[Len(matches)].end), LAMBDA text :
            [kind |-> "timed", status |-> "ok",
             lines |-> [k \in 1..Len(times.timestamps) |->
                          [timestamp_ms |-> times.timestamps[k],
                           text |-> text]]])

\* one iteration of the while loop, on the raw record
ParseRecord(raw, b) ==
    Bind(Sanitize(raw), LAMBDA line :
        IF line = <<>> THEN [kind |-> "empty", status |-> "ok"]
        ELSE Bind(regex_search_offset(line, 1), LAMBDA offset_match :
            IF offset_match.found
            THEN Bind(stoi(offset_match.str1), LAMBDA v :
                    IF v.ok
                    THEN [kind |-> "offset", status |-> "ok",
                          global_offset |-> v.val]
                    ELSE [kind |-> "offset", status |-> "throw"])
            ELSE Bind(sregex_iterator(line, 1), LAMBDA matches :
                    Bind(TagTimes(matches, 1, b), LAMBDA times :
                        TimedLines(line, matches, times)))))

\* ParseRecord on the records of the modelled bodies, evaluated once
RecordTable == [b \in Builds |-> [r \in AllRecords |-> ParseRecord(r, b)]]

Record(raw, b) ==
    IF raw \in AllRecords THEN RecordTable[b][raw] ELSE ParseRecord(raw, b)

\* the while loop: timed_lyrics and global_offset after the records from i
\* on, or the state in which an exception or a trap left them
RECURSIVE ScanRecords(_, _, _, _, _)
ScanRecords(records, i, b, lyrics_acc, global_offset) ==
    IF i > Len(records)
    THEN [status |-> "ok", timed_lyrics |-> lyrics_acc,
          global_offset |-> global_offset]
    ELSE Bind(Record(records[i], b), LAMBDA r :
            IF r.status # "ok"
            THEN [status |-> r.status, timed_lyrics |-> lyrics_acc,
                  global_offset |-> global_offset]
            ELSE IF r.kind = "offset"
            THEN ScanRecords(records, i + 1, b, lyrics_acc, r.global_offset)
            ELSE IF r.kind = "timed"
            THEN ScanRecords(records, i + 1, b, lyrics_acc \o r.lines,
                             global_offset)
            ELSE ScanRecords(records, i + 1, b, lyrics_acc, global_offset))

\* timed_lyrics[i].timestamp_ms -= global_offset from index i on
RECURSIVE ApplyOffset(_, _, _, _)
ApplyOffset(lines, i, global_offset, b) ==
    IF i > Len(lines) THEN [status |-> "ok", timed_lyrics |-> lines]
    ELSE IF SubOverflows(lines[i].timestamp_ms, global_offset)
            /\ b.overflow = "trap"
    THEN [status |-> "trap", timed_lyrics |-> lines]
    ELSE Bind([lines EXCEPT ![i].timestamp_ms = SubWrap(@, global_offset)],
              LAMBDA shifted : ApplyOffset(shifted, i + 1, global_offset, b))

\* std::sort by timestamp_ms: the order of equal timestamps is unspecified,
\* so every ordering of the lines that is non-decreasing is a possible result
RECURSIVE SortResults(_, _)
SortResults(lines, idx) ==
    IF idx = {} THEN {<<>>}
    ELSE UNION {{<<lines[i]>> \o rest :
                    rest \in SortResults(lines, idx \ {i})} :
                i \in {i \in idx : \A j \in idx :
                          lines[i].timestamp_ms <= lines[j].timestamp_ms}}

std_sort(lines) == SortResults(lines, DOMAIN lines)

\* the dummy line of the title, in front of the lyrics
title_line(title) == [timestamp_ms |-> -1, text |-> title]

\* timed_lyrics[0].timestamp_ms = timed_lyrics[1].timestamp_ms - 1000 when
\* the first lyric is not after the title line
HeaderFixup(lines, b) ==
    IF lines[2].timestamp_ms <= lines[1].timestamp_ms
    THEN (IF SubOverflows(lines[2].timestamp_ms, 1000) /\ b.overflow = "trap"
          THEN [status |-> "trap", timed_lyrics |-> lines]
          ELSE [status |-> "ok",
                timed_lyrics |->
                    [lines EXCEPT ![1].timestamp_ms =
                                      SubWrap(lines[2].timestamp_ms, 1000)]])
    ELSE [status |-> "ok", timed_lyrics |-> lines]

\* GTK: what update_lyrics_window can leave in timed_lyrics, and whether it
\* returned ("ok"), threw ("throw") or trapped ("trap")
ParseGtk(title, lyrics, b) ==
    Bind(GetLines(lyrics), LAMBDA records :
    Bind(ScanRecords(records, 1, b, <<title_line(title)>>, 0), LAMBDA scan :
        IF scan.status # "ok"
        THEN {[status |-> scan.status, timed_lyrics |-> scan.timed_lyrics]}
        ELSE IF ~(Len(scan.timed_lyrics) > 1)
        THEN {[status |-> "ok", timed_lyrics |-> scan.timed_lyrics]}
        ELSE Bind(ApplyOffset(scan.timed_lyrics, 2, scan.global_offset, b),
                  LAMBDA off :
                IF off.status # "ok" THEN {off}
                ELSE {HeaderFixup(<<Head(off.timed_lyrics)>> \o sorted, b) :
                         sorted \in std_sort(Tail(off.timed_lyrics))})))

\* Qt: no title line; the offset is applied to, and the sort runs over, the
\* whole vector
ParseQt(title, lyrics, b) ==
    Bind(GetLines(lyrics), LAMBDA records :
    Bind(ScanRecords(records, 1, b, <<>>, 0), LAMBDA scan :
        IF scan.status # "ok"
        THEN {[status |-> scan.status, timed_lyrics |-> scan.timed_lyrics]}
        ELSE IF scan.timed_lyrics = <<>>
        THEN {[status |-> "ok", timed_lyrics |-> <<>>]}
        ELSE Bind(ApplyOffset(scan.timed_lyrics, 1, scan.global_offset, b),
                  LAMBDA off :
                IF off.status # "ok" THEN {off}
                ELSE {[status |-> "ok", timed_lyrics |-> sorted] :
                         sorted \in std_sort(off.timed_lyrics)})))

(***************************************************************************)
(* The window selector: the search loop of highlight_lyrics.  Indices are  *)
(* the code's, from 0: timed_lyrics[i] is tl[i + 1].                       *)
(***************************************************************************)
\* the value read at an index outside the vector
OutOfBounds == [timestamp_ms |-> 0, text |-> <<"?">>]

Min(a, b) == IF a <= b THEN a ELSE b

\* what one call of highlight_lyrics computes: the index at which the outer
\* loop stopped, the indices it read, the indices copied and the lines copied
Selection(tl, current_time_ms, found, picked) ==
    [called |-> TRUE, ran |-> TRUE, current_time_ms |-> current_time_ms,
     found |-> found,
     picked |-> picked,
     reads |-> {i \in 0..found : i < Len(tl) \/ found < Len(tl)}
                 \cup Range(picked),
     lines_to_display |->
         [k \in 1..Len(picked) |->
            IF picked[k] \in 0..(Len(tl) - 1) THEN tl[picked[k] + 1]
            ELSE OutOfBounds]]

NoTick == [called |-> FALSE, ran |-> FALSE, current_time_ms |-> 0,
           found |-> 0, picked |-> <<>>, reads |-> {},
           lines_to_display |-> <<>>]

\* a call of highlight_lyrics that returned before the selection
Skipped == [NoTick EXCEPT !.called = TRUE]

\* the outer loop stopping at the last entry instead of past it
RECURSIVE FindCurrentGtkClamped(_, _, _)
FindCurrentGtkClamped(tl, i, current_time_ms) ==
    IF i < Len(tl) - 1 /\ ~(tl[i + 1].timestamp_ms >= current_time_ms)
    THEN FindCurrentGtkClamped(tl, i + 1, current_time_ms)
    ELSE i

\* GTK outer loop: the first i with timed_lyrics[i].timestamp_ms >= current
\* time, or size if the loop ends without one
RECURSIVE FindCurrentGtk(_, _, _)
FindCurrentGtk(tl, i, current_time_ms) ==
    IF i < Len(tl) /\ ~(tl[i + 1].timestamp_ms >= current_time_ms)
    THEN FindCurrentGtk(tl, i + 1, current_time_ms)
    ELSE i

\* the inner loop without its limit of 4 lines
RECURSIVE EmitGtkUncapped(_, _, _)
EmitGtkUncapped(j, end_index, line_count) ==
    IF j <= end_index
    THEN <<j>> \o EmitGtkUncapped(j + 1, end_index, line_count + 1)
    ELSE <<>>

\* GTK inner loop: the indices j pushed to lines_to_display
RECURSIVE EmitGtk(_, _, _)
EmitGtk(j, end_index, line_count) ==
    IF j <= end_index /\ line_count < 4
    THEN <<j>> \o EmitGtk(j + 1, end_index, line_count + 1)
    ELSE <<>>

\* GTK: the selection of highlight_lyrics (current_time_ms)
SelectGtk(tl, current_time_ms) ==
    Bind(FindCurrentGtk(tl, 0, current_time_ms), LAMBDA i :
    Bind(IF i < Len(tl)
         THEN EmitGtk(IF i > 1 THEN i - 2 ELSE 0,
                      Min(i + 2, Len(tl) - 1), 0)
         ELSE <<>>, LAMBDA picked :
        Selection(tl, current_time_ms, i, picked)))

\* Qt: the same loops in the other file
\* (first, the outer loop with > for >=)
RECURSIVE FindCurrentQtStrict(_, _, _)
FindCurrentQtStrict(tl, i, current_time_ms) ==
    IF i < Len(tl) /\ ~(tl[i + 1].timestamp_ms > current_time_ms)
    THEN FindCurrentQtStrict(tl, i + 1, current_time_ms)
    ELSE i

RECURSIVE FindCurrentQt(_, _, _)
FindCurrentQt(tl, i, current_time_ms) ==
    IF i < Len(tl) /\ ~(tl[i + 1].timestamp_ms >= current_time_ms)
    THEN FindCurrentQt(tl, i + 1, current_time_ms)
    ELSE i

RECURSIVE EmitQt(_, _, _)
EmitQt(j, end_index, line_count) ==
    IF j <= end_index /\ line_count < 4
    THEN <<j>> \o EmitQt(j + 1, end_index, line_count + 1)
    ELSE <<>>

SelectQt(tl, current_time_ms) ==
    Bind(FindCurrentQt(tl, 0, current_time_ms), LAMBDA i :
    Bind(IF i < Len(tl)
         THEN EmitQt(IF i > 1 THEN i - 2 ELSE 0,
                     Min(i + 2, Len(tl) - 1), 0)
         ELSE <<>>, LAMBDA picked :
        Selection(tl, current_time_ms, i, picked)))

(***************************************************************************)
(* Inputs                                                                  *)
(***************************************************************************)
\* the records of a body from the i-th on, one per line
RECURSIVE JoinFrom(_, _)
JoinFrom(rs, i) ==
    IF i > Len(rs) THEN <<>>
    ELSE IF i = Len(rs) THEN rs[i]
    ELSE rs[i] \o <<"\n">> \o JoinFrom(rs, i + 1)

JoinRecords(rs) == JoinFrom(rs, 1)

\* bodies have at most MaxRecords records
MaxRecords == 3

\* every body of at most MaxRecords core records, every rare record alone,
\* after and before a core record, and every pair of rare records
AllBodies ==
    {JoinRecords(rs) :
        rs \in UNION {[1..n -> CoreRecords] : n \in 0..MaxRecords}}
    \cup RareRecords
    \cup {JoinRecords(<<r, s>>) : r \in CoreRecords, s \in RareRecords}
    \cup {JoinRecords(<<s, r>>) : r \in CoreRecords, s \in RareRecords}
    \cup {JoinRecords(<<r, s>>) : r \in RareRecords, s \in RareRecords}

Titles == {<<"T", "1">>, <<"T", "2">>}

\* the title of the one payload of SpecParse
ParseTitles == {<<"T", "1">>}

\* the bodies of the plugin's life cycle
Bodies ==
    {<<>>, RecPlain, RecMulti,
     JoinRecords(<<RecMulti, RecFrac, RecBetween>>),
     JoinRecords(<<RecOffset, RecBetween>>),
     RecBigMinutes}

\* the current times highlight_lyrics is tried on
Times == {-1001, -1, 0, 5000, 10000, 10007, 20000, 20008}

\* playback positions aud_drct_get_time reports in the life cycle
Positions == {0, 5000, 10000, 20008}

(***************************************************************************)
(* The plugin                                                              *)
(***************************************************************************)
VARIABLES
    toolkit,       \* "gtk" or "qt": which copy is loaded
    host,          \* "running", or "terminated" by an uncaught exception/trap
    textbuffer,    \* GTK textbuffer / Qt textedit is not null
    timer,         \* a timeout calling update_lyrics_display is installed
    sync_lyrics,   \* aud_get_bool (CFG_SECTION, "sync_lyrics")
    display,       \* contents of the text buffer
    timed_lyrics,  \* the timeline
    payload,       \* arguments of the latest update_lyrics_window call
    parse,         \* the latest run of the parser that timed_lyrics is from
    tick           \* locals of the latest highlight_lyrics call

vars == <<toolkit, host, textbuffer, timer, sync_lyrics, display,
          timed_lyrics, payload, parse, tick>>

NoPayload == <<>>

NoParse == [ran |-> FALSE, title |-> <<>>, lyrics |-> <<>>, status |-> "ok"]

EmptyDisplay == [kind |-> "empty", content |-> <<>>]

Init ==
    /\ toolkit \in {"gtk", "qt"}
    /\ host = "running"
    /\ textbuffer = FALSE
    /\ timer = FALSE
    /\ sync_lyrics \in BOOLEAN
    /\ display = EmptyDisplay
    /\ timed_lyrics = <<>>
    /\ payload = NoPayload
    /\ parse = NoParse
    /\ tick = NoTick

\* LyricsGtk::get_gtk_widget with build_widget: a new empty buffer and one
\* more timeout, which nothing ever removes
get_gtk_widget ==
    /\ toolkit = "gtk" /\ host = "running" /\ ~textbuffer
    /\ textbuffer' = TRUE
    /\ timer' = TRUE
    /\ display' = EmptyDisplay
    /\ tick' = NoTick
    /\ UNCHANGED <<toolkit, host, sync_lyrics, timed_lyrics, payload, parse>>

\* LyricsQt::get_qt_widget: a new QTextEdit with a QTimer as its child
get_qt_widget ==
    /\ toolkit = "qt" /\ host = "running" /\ ~textbuffer
    /\ textbuffer' = TRUE
    /\ timer' = TRUE
    /\ display' = EmptyDisplay
    /\ tick' = NoTick
    /\ UNCHANGED <<toolkit, host, sync_lyrics, timed_lyrics, payload, parse>>

\* GTK destroy_cb: the pointers are reset, timed_lyrics and the timeout stay
destroy_cb ==
    /\ toolkit = "gtk" /\ host = "running" /\ textbuffer
    /\ textbuffer' = FALSE
    /\ display' = EmptyDisplay
    /\ tick' = NoTick
    /\ UNCHANGED <<toolkit, host, timer, sync_lyrics, timed_lyrics, payload,
                   parse>>

\* Qt lyrics_cleanup on QObject::destroyed: the timer dies with the widget
lyrics_cleanup ==
    /\ toolkit = "qt" /\ host = "running" /\ textbuffer
    /\ textbuffer' = FALSE
    /\ timer' = FALSE
    /\ timed_lyrics' = <<>>
    /\ parse' = NoParse
    /\ display' = EmptyDisplay
    /\ tick' = NoTick
    /\ UNCHANGED <<toolkit, host, sync_lyrics, payload>>

\* the results of update_lyrics_window over the builds, evaluated once for
\* the bodies of the life cycle
GtkTable ==
    [title \in Titles |-> [lyrics \in Bodies |->
        UNION {ParseGtk(title, lyrics, b) : b \in Builds}]]

OutcomesGtk(title, lyrics) ==
    IF lyrics \in Bodies THEN GtkTable[title][lyrics]
    ELSE UNION {ParseGtk(title, lyrics, b) : b \in Builds}

QtTable ==
    [title \in Titles |-> [lyrics \in Bodies |->
        UNION {ParseQt(title, lyrics, b) : b \in Builds}]]

OutcomesQt(title, lyrics) ==
    IF lyrics \in Bodies THEN QtTable[title][lyrics]
    ELSE UNION {ParseQt(title, lyrics, b) : b \in Builds}

\* what both copies do with a parse result
Parsed(title, lyrics, out) ==
    /\ display' = [kind |-> "static", content |-> <<title, lyrics>>]
    /\ timed_lyrics' = out.timed_lyrics
    /\ parse' = [ran |-> TRUE, title |-> title, lyrics |-> lyrics,
                 status |-> out.status]
    /\ host' = IF out.status = "ok" THEN "running" ELSE "terminated"

\* GTK update_lyrics_window (title, artist, lyrics)
update_lyrics_window_gtk(title, lyrics) ==
    /\ toolkit = "gtk" /\ host = "running"
    /\ payload' = <<title, lyrics>>
    /\ tick' = NoTick
    /\ IF ~textbuffer
       THEN UNCHANGED <<display, timed_lyrics, parse, host>>
       ELSE \E out \in OutcomesGtk(title, lyrics) :
               Parsed(title, lyrics, out)
    /\ UNCHANGED <<toolkit, textbuffer, timer, sync_lyrics>>

\* Qt update_lyrics_window (title, artist, lyrics)
update_lyrics_window_qt(title, lyrics) ==
    /\ toolkit = "qt" /\ host = "running"
    /\ payload' = <<title, lyrics>>
    /\ tick' = NoTick
    /\ IF ~textbuffer
       THEN UNCHANGED <<display, timed_lyrics, parse, host>>
       ELSE \E out \in OutcomesQt(title, lyrics) :
               Parsed(title, lyrics, out)
    /\ UNCHANGED <<toolkit, textbuffer, timer, sync_lyrics>>

\* the display when the buffer is not emptied before the selected lines are
\* inserted at its start
HighlightedUncleared(sel) ==
    [kind |-> IF display.content = <<>> \/ sel.lines_to_display # <<>>
              THEN "sync" ELSE display.kind,
     content |-> [k \in 1..Len(sel.lines_to_display) |->
                    sel.lines_to_display[k].text] \o display.content]

\* the buffer after highlight_lyrics inserted the selected lines
Highlighted(sel) ==
    [kind |-> "sync",
     content |-> [k \in 1..Len(sel.lines_to_display) |->
                    sel.lines_to_display[k].text]]

\* GTK update_lyrics_display without the test of "sync_lyrics"
update_lyrics_display_gtk_unsynced(current_time_ms) ==
    /\ toolkit = "gtk" /\ host = "running" /\ timer
    /\ IF ~textbuffer
       THEN /\ tick' = Skipped
            /\ UNCHANGED display
       ELSE /\ tick' = SelectGtk(timed_lyrics, current_time_ms)
            /\ display' = Highlighted(tick')
    /\ UNCHANGED <<toolkit, host, textbuffer, timer, sync_lyrics,
                   timed_lyrics, payload, parse>>

\* GTK update_lyrics_display: highlight_lyrics (aud_drct_get_time ())
update_lyrics_display_gtk(current_time_ms) ==
    /\ toolkit = "gtk" /\ host = "running" /\ timer
    /\ IF ~textbuffer \/ ~sync_lyrics
       THEN /\ tick' = Skipped
            /\ UNCHANGED display
       ELSE /\ tick' = SelectGtk(timed_lyrics, current_time_ms)
            /\ display' = Highlighted(tick')
    /\ UNCHANGED <<toolkit, host, textbuffer, timer, sync_lyrics,
                   timed_lyrics, payload, parse>>

\* Qt update_lyrics_display
update_lyrics_display_qt(current_time_ms) ==
    /\ toolkit = "qt" /\ host = "running" /\ timer
    /\ IF ~textbuffer \/ ~sync_lyrics
       THEN /\ tick' = Skipped
            /\ UNCHANGED display
       ELSE /\ tick' = SelectQt(timed_lyrics, current_time_ms)
            /\ display' = Highlighted(tick')
    /\ UNCHANGED <<toolkit, host, textbuffer, timer, sync_lyrics,
                   timed_lyrics, payload, parse>>

\* the user switches "sync_lyrics" in the settings of the host; the next
\* aud_get_bool reads the new value
set_sync_lyrics ==
    /\ host = "running"
    /\ sync_lyrics' = ~sync_lyrics
    /\ tick' = NoTick
    /\ UNCHANGED <<toolkit, host, textbuffer, timer, display, timed_lyrics,
                   payload, parse>>

\* the plugin's life: widgets come and go, lyrics arrive, the timer ticks
Next ==
    \/ get_gtk_widget
    \/ set_sync_lyrics
    \/ get_qt_widget
    \/ destroy_cb
    \/ lyrics_cleanup
    \/ toolkit = "gtk" /\ \E title \in Titles, lyrics \in Bodies :
          update_lyrics_window_gtk(title, lyrics)
    \/ toolkit = "qt" /\ \E title \in Titles, lyrics \in Bodies :
          update_lyrics_window_qt(title, lyrics)
    \/ \E t \in Positions : update_lyrics_display_gtk(t)
    \/ \E t \in Positions : update_lyrics_display_qt(t)

Spec == Init /\ [][Next]_vars

\* one payload, drawn from all bodies, parsed once and then displayed once
NextParse ==
    \/ get_gtk_widget
    \/ get_qt_widget
    \/ toolkit = "gtk" /\ payload = NoPayload
          /\ \E title \in ParseTitles, lyrics \in AllBodies :
                update_lyrics_window_gtk(title, lyrics)
    \/ toolkit = "qt" /\ payload = NoPayload
          /\ \E title \in ParseTitles, lyrics \in AllBodies :
                update_lyrics_window_qt(title, lyrics)
    \/ ~tick.ran /\ \E t \in Times : update_lyrics_display_gtk(t)
    \/ ~tick.ran /\ \E t \in Times : update_lyrics_display_qt(t)

\* synchronization is on, so that every tick runs the selector
InitParse == Init /\ sync_lyrics

SpecParse == InitParse /\ [][NextParse]_vars

(***************************************************************************)
(* Properties of the timeline left by update_lyrics_window                 *)
(***************************************************************************)
\* the parser ran on the payload timed_lyrics is from, and returned
Returned == parse.ran /\ parse.status = "ok"

Sorted(tl) ==
    \A k \in 1..(Len(tl) - 1) : tl[k].timestamp_ms <= tl[k + 1].timestamp_ms

\* C1: the timeline left by update_lyrics_window, in the GTK and in the Qt
\* copy, is sorted non-decreasing by timestamp_ms, the pair (header, first
\* lyric) included, for every title and body.
C1_TimelineSorted == Returned => Sorted(timed_lyrics)

\* C2: after a parse that yields at least 2 entries, index 0 holds the header
\* line (text = title) and its timestamp_ms is strictly less than that of
\* every other entry, for any body and any offset value.
C2_HeaderStrictlyFirst ==
    (Returned /\ Len(timed_lyrics) >= 2)
        => /\ timed_lyrics[1].text = parse.title
           /\ \A k \in 2..Len(timed_lyrics) :
                 timed_lyrics[1].timestamp_ms < timed_lyrics[k].timestamp_ms

\* the body has no timestamp tag
NoTimeTag(lyrics) ==
    \A r \in Range(GetLines(lyrics)) : sregex_iterator(Sanitize(r), 1) = <<>>

\* C3: parsing an empty body, or a body without any timestamp tag, is no
\* error and yields exactly one entry, the header line with timestamp_ms = -1
\* and text = title, in both toolkit copies.
C3_UntaggedBodyGivesHeaderOnly ==
    (parse.ran /\ NoTimeTag(parse.lyrics))
        => /\ parse.status = "ok"
           /\ timed_lyrics = <<[timestamp_ms |-> -1, text |-> parse.title]>>

(***************************************************************************)
(* Properties of the selection of highlight_lyrics                         *)
(***************************************************************************)
\* C4: for any timeline, of 0 or 1 entries too, and any current_time_ms, the
\* lines selected by highlight_lyrics are at most 4, are the timeline's
\* entries at consecutive indices in ascending order, and no index outside
\* 0..size-1 is read.
C4_SelectionBounded ==
    tick.ran
        => /\ Len(tick.picked) <= 4
           /\ \A k \in 1..(Len(tick.picked) - 1) :
                 tick.picked[k + 1] = tick.picked[k] + 1
           /\ tick.reads \subseteq 0..(Len(timed_lyrics) - 1)
           /\ Len(tick.lines_to_display) = Len(tick.picked)
           /\ \A k \in 1..Len(tick.picked) :
                 tick.lines_to_display[k] = timed_lyrics[tick.picked[k] + 1]

\* a tick on a timeline long enough for the limit of 4 lines to cut the
\* window of 5
C4_Witness ==
    /\ tick.ran
    /\ toolkit = "gtk"
    /\ Len(tick.picked) = 4
    /\ tick.found >= 2
    /\ tick.found + 2 <= Len(timed_lyrics) - 1

\* the indices whose timestamp is not before the current time
Crossing(tl, current_time_ms) ==
    {i \in 0..(Len(tl) - 1) : tl[i + 1].timestamp_ms >= current_time_ms}

Least(S) == CHOOSE i \in S : \A j \in S : i <= j

Max(a, b) == IF a >= b THEN a ELSE b

\* the indices max(0, i-2) .. min(i+2, last), cut to the first 4
Window(i, last) ==
    [k \in 1..Min(Min(i + 2, last) - Max(0, i - 2) + 1, 4) |->
        Max(0, i - 2) + k - 1]

C6_OutOfRangeSelectsNothing ==
    (/\ tick.ran
     /\ \/ tick.current_time_ms < 0
        \/ \A k \in 1..Len(timed_lyrics) :
              timed_lyrics[k].timestamp_ms < tick.current_time_ms)
        => tick.picked = <<>> /\ host = "running"

\* C6, amended: when current_time_ms is greater than every timestamp of the
\* timeline, highlight_lyrics selects nothing and raises no error; a negative
\* current_time_ms is not out of range: whenever an entry has a timestamp
\* that is not before it, the selection is not empty.
C6_PastTheEndSelectsNothing ==
    tick.ran
        => /\ (\A k \in 1..Len(timed_lyrics) :
                  timed_lyrics[k].timestamp_ms < tick.current_time_ms)
                 => tick.picked = <<>> /\ host = "running"
           /\ (/\ tick.current_time_ms < 0
               /\ \E k \in 1..Len(timed_lyrics) :
                     timed_lyrics[k].timestamp_ms >= tick.current_time_ms)
                 => tick.picked # <<>> /\ host = "running"

\* a tick of the GTK copy past the last of several entries
C6_Witness ==
    /\ tick.ran
    /\ toolkit = "gtk"
    /\ Len(timed_lyrics) >= 3
    /\ tick.current_time_ms > 0
    /\ \A k \in 1..Len(timed_lyrics) :
          timed_lyrics[k].timestamp_ms < tick.current_time_ms
    /\ tick.picked = <<>>

(***************************************************************************)
(* Properties of the records and of the offset                             *)
(***************************************************************************)
\* the lines of the lyrics in the timeline: all but the title line of GTK
LyricLines ==
    IF toolkit = "gtk" THEN Tail(timed_lyrics) ELSE timed_lyrics

Count(seq, x) == Cardinality({k \in DOMAIN seq : seq[k] = x})

SameBag(s, t) ==
    /\ Len(s) = Len(t)
    /\ \A x \in Range(s) \cup Range(t) : Count(s, x) = Count(t, x)

IsOffsetRecord(r) == regex_search_offset(Sanitize(r), 1).found

\* the integer of the last offset record among the first i records, 0 if
\* there is none
RECURSIVE LastOffset(_, _)
LastOffset(records, i) ==
    IF i = 0 THEN 0
    ELSE IF IsOffsetRecord(records[i])
    THEN stoi(regex_search_offset(Sanitize(records[i]), 1).str1).val
    ELSE LastOffset(records, i - 1)

\* the lines of the records from the i-th on that are no offset records,
\* with the time of each tag as the build b computes it
RECURSIVE TagLines(_, _, _)
TagLines(records, i, b) ==
    IF i > Len(records) THEN <<>>
    ELSE (IF IsOffsetRecord(records[i]) \/ Record(records[i], b).kind # "timed"
          THEN <<>>
          ELSE Record(records[i], b).lines)
         \o TagLines(records, i + 1, b)

\* the tag time minus GlobalOffset, as integers; a difference that is no int
\* is the timestamp of no line
Shifted(lines, global_offset) ==
    [k \in DOMAIN lines |->
        IF SubOverflows(lines[k].timestamp_ms, global_offset)
        THEN [fits |-> FALSE, text |-> lines[k].text]
        ELSE [timestamp_ms |-> lines[k].timestamp_ms - global_offset,
              text |-> lines[k].text]]

\* C7: GlobalOffset is the integer of the last offset record of the body (0
\* without one); the final timestamp of every line of the lyrics is its tag
\* time minus GlobalOffset, whether its record comes before or after the
\* offset record; the header's timestamp is never shifted by the offset.
C7_LastOffsetShiftsEveryLine ==
    Returned
        => \E b \in Builds :
              /\ SameBag(LyricLines,
                         Shifted(TagLines(GetLines(parse.lyrics), 1, b),
                                 LastOffset(GetLines(parse.lyrics),
                                            Len(GetLines(parse.lyrics)))))
              /\ (/\ toolkit = "gtk"
                  /\ \A k \in 2..Len(timed_lyrics) :
                        timed_lyrics[k].timestamp_ms > -1)
                    => timed_lyrics[1].timestamp_ms = -1

\* minutes*60000 + seconds*1000 of a tag, truncated, from its decimal
\* digits; fits is false when the minutes alone are beyond any int
ClaimedTime(m) ==
    IF stoi(m.str1).ok /\ stoi(m.str1).val <= INT_MAX \div 60000
    THEN [fits |-> TRUE,
          val |-> stoi(m.str1).val * 60000
                    + StoiAcc(SubSeq(m.str2, 1, Skip(m.str2, 1, Digit) - 1),
                              1, FALSE, 0).val * 1000
                    + (StoiAcc(SubSeq(m.str2, Skip(m.str2, 1, Digit) + 1,
                                      Len(m.str2)), 1, FALSE, 0).val * 1000)
                        \div 10^(Max(Len(m.str2) - Skip(m.str2, 1, Digit), 0))]
    ELSE [fits |-> FALSE]

\* what C8 says a sanitized record contributes
ClaimedOfLine(line) ==
    IF line = <<>> \/ regex_search_offset(line, 1).found THEN <<>>
    ELSE [k \in 1..Len(sregex_iterator(line, 1)) |->
            [time |-> ClaimedTime(sregex_iterator(line, 1)[k]),
             text |->
                 SubSeq(line,
                        Skip(line,
                             sregex_iterator(line, 1)
                                 [Len(sregex_iterator(line, 1))].end,
                             {" ", "\t"}),
                        Len(line))]]

RECURSIVE ClaimedLines(_, _)
ClaimedLines(records, i) ==
    IF i > Len(records) THEN <<>>
    ELSE ClaimedOfLine(Sanitize(records[i])) \o ClaimedLines(records, i + 1)

Texts(lines) == [k \in DOMAIN lines |-> lines[k].text]

\* C8: a record with an offset tag contributes no line; any other record
\* with k timestamp tags contributes exactly k lines, one per tag with the
\* time minutes*60000 + seconds*1000 truncated to an integer, all with the
\* text after the last tag without its leading blanks.
C8_RecordContributions ==
    Returned
        => /\ SameBag(Texts(LyricLines),
                      Texts(ClaimedLines(GetLines(parse.lyrics), 1)))
           /\ (\A r \in Range(GetLines(parse.lyrics)) : ~IsOffsetRecord(r))
                 => /\ \A k \in DOMAIN ClaimedLines(GetLines(parse.lyrics), 1) :
                          ClaimedLines(GetLines(parse.lyrics), 1)[k].time.fits
                    /\ SameBag(LyricLines,
                               [k \in DOMAIN
                                     ClaimedLines(GetLines(parse.lyrics), 1) |->
                                  [timestamp_ms |->
                                       ClaimedLines(GetLines(parse.lyrics),
                                                    1)[k].time.val,
                                   text |->
                                       ClaimedLines(GetLines(parse.lyrics),
                                                    1)[k].text]])

\* a tag of the body has digits that are no int
HasUnconvertible(lyrics) ==
    \E r \in Range(GetLines(lyrics)) :
        IF IsOffsetRecord(r)
        THEN ~stoi(regex_search_offset(Sanitize(r), 1).str1).ok
        ELSE \E k \in DOMAIN sregex_iterator(Sanitize(r), 1) :
                ~stoi(sregex_iterator(Sanitize(r), 1)[k].str1).ok

\* C9: a tag whose number cannot be converted is skipped, the parse goes on
\* and update_lyrics_window completes normally: no error reaches the host.
C9_UnconvertibleTagIsSkipped ==
    (parse.ran /\ HasUnconvertible(parse.lyrics))
        => parse.status = "ok" /\ host = "running"

\* the lines a parse of the payload can put into the timeline
LinesOf(p) ==
    IF p = NoPayload THEN {}
    ELSE UNION {Range(out.timed_lyrics) :
                   out \in IF toolkit = "gtk" THEN OutcomesGtk(p[1], p[2])
                           ELSE OutcomesQt(p[1], p[2])}

\* C10: every call of update_lyrics_window runs the parser and replaces the
\* timeline, so a tick selects lines of the most recent payload only, never
\* lines of an earlier one.
C10_TicksShowLatestPayload ==
    tick.ran => Range(tick.lines_to_display) \subseteq LinesOf(payload)

(***************************************************************************)
(* The two copies against each other                                       *)
(***************************************************************************)
\* what the other copy's update_lyrics_window can leave for the same payload
OtherOutcomes(title, lyrics) ==
    IF toolkit = "gtk" THEN OutcomesQt(title, lyrics)
    ELSE OutcomesGtk(title, lyrics)

\* what the other copy's highlight_lyrics computes on the same timeline
OtherSelect(tl, current_time_ms) ==
    IF toolkit = "gtk" THEN SelectQt(tl, current_time_ms)
    ELSE SelectGtk(tl, current_time_ms)

\* C11: the two copies implement the same logic: for every title and body
\* the Qt and the GTK update_lyrics_window build the same timeline (same
\* entries, timestamps and order), and for every current_time_ms the two
\* highlight_lyrics select the same lines from it.
C11_CopiesAgree ==
    /\ Returned
          => \E out \in OtherOutcomes(parse.title, parse.lyrics) :
                out.status = "ok" /\ out.timed_lyrics = timed_lyrics
    /\ tick.ran => tick = OtherSelect(timed_lyrics, tick.current_time_ms)

(***************************************************************************)
(* The timer tick and the display                                          *)
(***************************************************************************)
\* C12: when "sync_lyrics" is false, a timer tick does not run the selection
\* and leaves the display contents and the timeline unchanged, for any
\* playback position and any timeline.
C12_SyncOffTickChangesNothing ==
    [][(~sync_lyrics /\ tick'.called)
          => /\ ~tick'.ran
             /\ display' = display
             /\ timed_lyrics' = timed_lyrics]_vars

\* a tick with synchronization off, the widget present and the static lyrics
\* of a payload with lines on display
C12_Witness ==
    /\ tick.called
    /\ ~tick.ran
    /\ ~sync_lyrics
    /\ textbuffer
    /\ display.kind = "static"
    /\ Len(timed_lyrics) >= 2

(***************************************************************************)
(* The order of lines with equal timestamps                                *)
(***************************************************************************)
\* the lines in the order of their extraction with the offset applied: what
\* the sort is given
Extracted(b) ==
    LET scan == ScanRecords(GetLines(parse.lyrics), 1, b, <<>>, 0)
    IN  IF scan.status # "ok" THEN scan
        ELSE ApplyOffset(scan.timed_lyrics, 1, scan.global_offset, b)

\* the lines at idx by non-decreasing timestamp_ms, equal timestamps in the
\* order of their indices
RECURSIVE StableSort(_, _)
StableSort(lines, idx) ==
    IF idx = {} THEN <<>>
    ELSE LET first == CHOOSE i \in idx : \A j \in idx :
                          \/ lines[i].timestamp_ms < lines[j].timestamp_ms
                          \/ /\ lines[i].timestamp_ms = lines[j].timestamp_ms
                             /\ i <= j
         IN  <<lines[first]>> \o StableSort(lines, idx \ {first})

\* C13: the sort of the parser is stable: two lines with equal final
\* timestamp_ms stand in the timeline in the order of their extraction
\* (record order in the body, then tag order within a record).
C13_SortIsStable ==
    Returned
       => \E b \in Builds :
             /\ Extracted(b).status = "ok"
             /\ LyricLines = StableSort(Extracted(b).timed_lyrics,
                                        DOMAIN Extracted(b).timed_lyrics)

(***************************************************************************)
(* What a tick leaves on display                                           *)
(***************************************************************************)
\* the texts of the entries of tl around the first one that is not before
\* current_time_ms, in the order of tl; none if there is no such entry
Shown(tl, current_time_ms) ==
    IF Crossing(tl, current_time_ms) = {} THEN <<>>
    ELSE LET w == Window(Least(Crossing(tl, current_time_ms)), Len(tl) - 1)
         IN  [k \in DOMAIN w |-> tl[w[k] + 1].text]

\* C14: after a timer tick that runs with the widget present and
\* synchronization enabled, the display holds exactly the lines selected for
\* the current playback position, in timeline order, and nothing else; when
\* no entry of the timeline has timestamp_ms >= the position, the display is
\* empty and the static lyrics of update_lyrics_window are gone.
C14_DisplayIsSelection ==
    tick.ran
        => /\ textbuffer /\ sync_lyrics
           /\ display.kind = "sync"
           /\ display.content = Shown(timed_lyrics, tick.current_time_ms)
           /\ Crossing(timed_lyrics, tick.current_time_ms) = {}
                 => display = [kind |-> "sync", content |-> <<>>]

\* a tick after update_lyrics_window wrote the static lyrics of a payload:
\* four lines of the timeline have replaced them
C14_Witness ==
    /\ tick.ran
    /\ Returned
    /\ payload = <<parse.title, parse.lyrics>>
    /\ Len(display.content) = 4
    /\ display.content[2] = timed_lyrics[tick.found].text

====
